---- MODULE Spec2Model ----
(***************************************************************************)
(* State machine of the App component of DeclutterAI (src/src/App.tsx).    *)
(*                                                                         *)
(* The component's useState cells are the variables.  Every handler runs   *)
(* to completion between its awaits, so each action is the synchronous     *)
(* part of one handler: from its invocation to its first await, or from    *)
(* the settling of an awaited promise to the end of the function.  The     *)
(* awaited promises (FileReader, the AI service) settle in steps of their  *)
(* own, and the function waiting for a settled promise resumes before any  *)
(* other event is handled (its continuation is a microtask).               *)
(* Handlers read the state of the last committed render; the values        *)
(* a pending invocation closed over (chatMessages, selectedImage) are kept *)
(* in the invocation's record.                                             *)
(*                                                                         *)
(* Text is a sequence of tokens (strings); " " and "\n" are the whitespace *)
(* tokens, so trim() and the Room Type pattern are computed, not assumed.  *)
(***************************************************************************)
EXTENDS Integers, Sequences, FiniteSets, TLC

VARIABLES images, selectedImage, isAnalyzing, chatMessages, inputMessage,
          isChatting, error, analyzeCalls, chatCalls, nextId

vars == <<images, selectedImage, isAnalyzing, chatMessages, inputMessage,
          isChatting, error, analyzeCalls, chatCalls, nextId>>

-----------------------------------------------------------------------------
(* Bounds of the model *)

\* records ever created plus processImage invocations in flight
MaxRecords == 2

\* a send is accepted only while the transcript is shorter than this
MaxTranscript == 3

-----------------------------------------------------------------------------
(* Constants of the program *)

MODEL_NAME == "gemini-3.1-pro-preview"

\* useState<AnalysisResult | null>(null): the null selection
null == [id |-> 0, imageUrl |-> <<>>, suggestions |-> <<>>, roomType |-> <<>>]

\* useState<string | null>(null): the null error
NoError == "null"

AnalysisErrorText == "Failed to analyze image. Please check your API key and connection."

NoSuggestionsText == <<"No suggestions generated.">>

UnknownRoom == <<"Unknown Room">>

ChatNoTextReply == <<"I'm sorry, I couldn't process that.">>

ChatErrorText == <<"Sorry, I encountered an error. Please try again.">>

GenericInstruction == <<"You are an expert interior organizer. Help the user declutter and organize their home.">>

\* the request of line 163 passes no config, hence no systemInstruction
NoInstruction == <<>>

-----------------------------------------------------------------------------
(* Inputs *)

\* e.target.files?.[0] : a chosen file, or none when the picker is cancelled
NoFile == "none"

Files == {"room.png"}

\* what the user may type into the chat input
InputTexts == {<<" ">>, <<" ", "hi", " ">>}

\* response.text of the analysis request ("" when the service returns no text)
AnalysisTexts ==
    { <<"Room Type:", " ", "Kitchen", "\n", "\n", "Suggestions:", "\n", "- tip">>,
      <<"room type:", "Bedroom", " ">>,
      <<>> }

\* response.text of the chat request ("" when the service returns no text)
ChatTexts == { <<"Sure.">>, <<>> }

-----------------------------------------------------------------------------
(* Text functions *)

IsSpace(t) == t \in {" ", "\n"}

RECURSIVE TrimStart(_)
TrimStart(s) ==
    IF s # <<>> /\ IsSpace(Head(s)) THEN TrimStart(Tail(s)) ELSE s

RECURSIVE TrimEnd(_)
TrimEnd(s) ==
    IF s # <<>> /\ IsSpace(s[Len(s)]) THEN TrimEnd(SubSeq(s, 1, Len(s) - 1)) ELSE s

\* String.prototype.trim
Trim(s) == TrimEnd(TrimStart(s))

\* "Room Type:" under the pattern's i flag
IsRoomTypeKey(t) == t \in {"Room Type:", "room type:", "ROOM TYPE:"}

\* (.*) : the tokens up to the next line break
RECURSIVE RestOfLine(_)
RestOfLine(s) ==
    IF s = <<>> \/ Head(s) = "\n" THEN <<>> ELSE <<Head(s)>> \o RestOfLine(Tail(s))

\* resultText.match(/Room Type:\s*(.*)/i): <<>> for no match, else <<capture>>
RECURSIVE RoomTypeMatch(_)
RoomTypeMatch(s) ==
    IF s = <<>> THEN <<>>
    ELSE IF IsRoomTypeKey(Head(s)) THEN << RestOfLine(TrimStart(Tail(s))) >>
    ELSE RoomTypeMatch(Tail(s))

ResultText(text) == IF text = <<>> THEN NoSuggestionsText ELSE text

RoomTypeOf(resultText) ==
    IF RoomTypeMatch(resultText) # <<>> THEN Trim(RoomTypeMatch(resultText)[1])
    ELSE UnknownRoom

Greeting(roomType) ==
    <<"I've analyzed your ">> \o roomType
        \o <<". How can I help you further with organizing this space?">>

SystemInstruction(sel) ==
    IF sel # null
    THEN <<"You are an expert interior organizer. You are currently helping the user with their ">>
            \o sel.roomType
            \o <<". Use the previous analysis as context: ">>
            \o sel.suggestions
    ELSE GenericInstruction

\* URL.createObjectURL(file)
ObjectURL(file) == <<"blob:", file>>

Remove(s, i) == SubSeq(s, 1, i - 1) \o SubSeq(s, i + 1, Len(s))

-----------------------------------------------------------------------------
(* Initial state: the useState initial values, nothing in flight *)

Init ==
    /\ images = <<>>
    /\ selectedImage = null
    /\ isAnalyzing = FALSE
    /\ chatMessages = <<>>
    /\ inputMessage = <<>>
    /\ isChatting = FALSE
    /\ error = NoError
    /\ analyzeCalls = <<>>
    /\ chatCalls = <<>>
    /\ nextId = 1

-----------------------------------------------------------------------------
(* What is rendered: the handlers the user can reach *)

\* lines 82, 85, 163: an event is handled only when no settled promise has a
\* continuation waiting to run
NoContinuationQueued ==
    /\ \A k \in DOMAIN analyzeCalls : analyzeCalls[k].pc \in {"encoding", "requesting"}
    /\ \A k \in DOMAIN chatCalls : chatCalls[k].pc = "requesting"

\* lines 277-288: the chat panel is rendered only when no analysis is shown
\* as running and a record is selected
ChatPanelShown == ~isAnalyzing /\ selectedImage # null

-----------------------------------------------------------------------------
(* Analysis: handleFileUpload / processImage *)

\* the new record put behind the earlier ones: prev => [...prev, newResult]
PrependAtEnd(newResult, prev) == prev \o <<newResult>>

\* line 114: prev => [newResult, ...prev]
Prepend(newResult, prev) == <<newResult>> \o prev

\* lines 71-82: the picker's change event; processImage up to the await of
\* fileToBase64
HandleFileUpload(file) ==
    /\ NoContinuationQueued
    /\ IF file = NoFile
       THEN UNCHANGED vars
       ELSE
         /\ (nextId - 1) + Len(analyzeCalls) < MaxRecords
         /\ isAnalyzing' = TRUE
         /\ error' = NoError
         /\ analyzeCalls' = Append(analyzeCalls,
                [file |-> file, pc |-> "encoding", imageUrl |-> <<>>, text |-> <<>>])
         /\ UNCHANGED <<images, selectedImage, chatMessages, inputMessage,
                        isChatting, chatCalls, nextId>>

\* line 134, then lines 83-100: the reader loads, processImage resumes, makes
\* the object URL and issues the request
FileReaderOnLoad(i) ==
    /\ NoContinuationQueued
    /\ analyzeCalls[i].pc = "encoding"
    /\ analyzeCalls' = [analyzeCalls EXCEPT
            ![i].pc = "requesting", ![i].imageUrl = ObjectURL(analyzeCalls[i].file)]
    /\ UNCHANGED <<images, selectedImage, isAnalyzing, chatMessages, inputMessage,
                   isChatting, error, chatCalls, nextId>>

\* line 135: the reader fails, the promise of fileToBase64 rejects
FileReaderOnError(i) ==
    /\ NoContinuationQueued
    /\ analyzeCalls[i].pc = "encoding"
    /\ analyzeCalls' = [analyzeCalls EXCEPT ![i].pc = "rejected"]
    /\ UNCHANGED <<images, selectedImage, isAnalyzing, chatMessages, inputMessage,
                   isChatting, error, chatCalls, nextId>>

\* line 85: the service answers the analysis request with response.text = text
AnalysisResolves(i, text) ==
    /\ NoContinuationQueued
    /\ analyzeCalls[i].pc = "requesting"
    /\ analyzeCalls' = [analyzeCalls EXCEPT ![i].pc = "resolved", ![i].text = text]
    /\ UNCHANGED <<images, selectedImage, isAnalyzing, chatMessages, inputMessage,
                   isChatting, error, chatCalls, nextId>>

\* line 85: the analysis request fails
AnalysisRejects(i) ==
    /\ NoContinuationQueued
    /\ analyzeCalls[i].pc = "requesting"
    /\ analyzeCalls' = [analyzeCalls EXCEPT ![i].pc = "rejected"]
    /\ UNCHANGED <<images, selectedImage, isAnalyzing, chatMessages, inputMessage,
                   isChatting, error, chatCalls, nextId>>

\* lines 102-120 and 126: processImage resumes with the response.
\* Math.random (line 107) is taken to give an id no record had before;
\* Date.now (line 109) is not modelled.
ProcessImageThen(i) ==
    /\ analyzeCalls[i].pc = "resolved"
    /\ LET resultText == ResultText(analyzeCalls[i].text)
           roomType   == RoomTypeOf(resultText)
           newResult  == [id |-> nextId,
                          imageUrl |-> analyzeCalls[i].imageUrl,
                          suggestions |-> resultText,
                          roomType |-> roomType]
       IN /\ images' = Prepend(newResult, images)
          /\ selectedImage' = newResult
          /\ chatMessages' = << [role |-> "model", text |-> Greeting(roomType)] >>
    /\ nextId' = nextId + 1
    /\ isAnalyzing' = FALSE
    /\ analyzeCalls' = Remove(analyzeCalls, i)
    /\ UNCHANGED <<inputMessage, isChatting, error, chatCalls>>

\* a catch block that also drops the selection and its chat
ProcessImageCatchClearsSelection(i) ==
    /\ analyzeCalls[i].pc = "rejected"
    /\ error' = AnalysisErrorText
    /\ isAnalyzing' = FALSE
    /\ selectedImage' = null
    /\ chatMessages' = <<>>
    /\ analyzeCalls' = Remove(analyzeCalls, i)
    /\ UNCHANGED <<images, inputMessage, isChatting, chatCalls, nextId>>

\* lines 122-127: processImage resumes with the rejection
ProcessImageCatch(i) ==
    /\ analyzeCalls[i].pc = "rejected"
    /\ error' = AnalysisErrorText
    /\ isAnalyzing' = FALSE
    /\ analyzeCalls' = Remove(analyzeCalls, i)
    /\ UNCHANGED <<images, selectedImage, chatMessages, inputMessage,
                   isChatting, chatCalls, nextId>>

-----------------------------------------------------------------------------
(* Chat: handleSendMessage *)

\* line 372: onChange of the chat input
SetInputMessage(t) ==
    /\ NoContinuationQueued
    /\ ChatPanelShown
    /\ inputMessage' = t
    /\ UNCHANGED <<images, selectedImage, isAnalyzing, chatMessages, isChatting,
                   error, analyzeCalls, chatCalls, nextId>>

\* an early return that does not look at isChatting
SendRejectedWithoutBusyCheck == Trim(inputMessage) = <<>>

\* line 140: the condition of the early return
SendRejected == Trim(inputMessage) = <<>> \/ isChatting

\* lines 158-161: chatMessages.map(m => ({role, parts: [{text}]}))
History(msgs) == [k \in 1..Len(msgs) |-> [role |-> msgs[k].role, parts |-> msgs[k].text]]

\* lines 139-169: Enter in the chat input or the send button; handleSendMessage
\* up to the await of generateContent.  chat (line 148) is created with the
\* system instruction; the request (line 163) is made of model and contents.
HandleSendMessage ==
    /\ NoContinuationQueued
    /\ ChatPanelShown
    /\ IF SendRejected
       THEN UNCHANGED vars
       ELSE /\ Len(chatMessages) < MaxTranscript
            /\ LET userMsg == Trim(inputMessage)
               IN /\ inputMessage' = <<>>
                  /\ chatMessages' = Append(chatMessages, [role |-> "user", text |-> userMsg])
                  /\ isChatting' = TRUE
                  /\ chatCalls' = Append(chatCalls,
                        [userMsg |-> userMsg,
                         chatMessages |-> chatMessages,
                         selectedImage |-> selectedImage,
                         chat |-> [model |-> MODEL_NAME,
                                   systemInstruction |-> SystemInstruction(selectedImage)],
                         request |-> [model |-> MODEL_NAME,
                                      systemInstruction |-> NoInstruction,
                                      contents |-> Append(History(chatMessages),
                                            [role |-> "user", parts |-> userMsg])],
                         pc |-> "requesting",
                         text |-> <<>>])
            /\ UNCHANGED <<images, selectedImage, isAnalyzing, error, analyzeCalls, nextId>>

\* line 163: the service answers the chat request with response.text = text
ChatResolves(i, text) ==
    /\ NoContinuationQueued
    /\ chatCalls[i].pc = "requesting"
    /\ chatCalls' = [chatCalls EXCEPT ![i].pc = "resolved", ![i].text = text]
    /\ UNCHANGED <<images, selectedImage, isAnalyzing, chatMessages, inputMessage,
                   isChatting, error, analyzeCalls, nextId>>

\* line 163: the chat request fails
ChatRejects(i) ==
    /\ NoContinuationQueued
    /\ chatCalls[i].pc = "requesting"
    /\ chatCalls' = [chatCalls EXCEPT ![i].pc = "rejected"]
    /\ UNCHANGED <<images, selectedImage, isAnalyzing, chatMessages, inputMessage,
                   isChatting, error, analyzeCalls, nextId>>

\* lines 171 and 176: handleSendMessage resumes with the response
HandleSendMessageThen(i) ==
    /\ chatCalls[i].pc = "resolved"
    /\ chatMessages' = Append(chatMessages,
            [role |-> "model",
             text |-> IF chatCalls[i].text = <<>> THEN ChatNoTextReply ELSE chatCalls[i].text])
    /\ isChatting' = FALSE
    /\ chatCalls' = Remove(chatCalls, i)
    /\ UNCHANGED <<images, selectedImage, isAnalyzing, inputMessage, error,
                   analyzeCalls, nextId>>

\* a catch block that reports the failure the way processImage does
HandleSendMessageCatchSetsError(i) ==
    /\ chatCalls[i].pc = "rejected"
    /\ chatMessages' = Append(chatMessages, [role |-> "model", text |-> ChatErrorText])
    /\ error' = AnalysisErrorText
    /\ isChatting' = FALSE
    /\ chatCalls' = Remove(chatCalls, i)
    /\ UNCHANGED <<images, selectedImage, isAnalyzing, inputMessage,
                   analyzeCalls, nextId>>

\* lines 172-177: handleSendMessage resumes with the rejection
HandleSendMessageCatch(i) ==
    /\ chatCalls[i].pc = "rejected"
    /\ chatMessages' = Append(chatMessages, [role |-> "model", text |-> ChatErrorText])
    /\ isChatting' = FALSE
    /\ chatCalls' = Remove(chatCalls, i)
    /\ UNCHANGED <<images, selectedImage, isAnalyzing, inputMessage, error,
                   analyzeCalls, nextId>>

-----------------------------------------------------------------------------
(* Gallery *)

\* line 245: click on the gallery item of images[i]
SelectImage(i) ==
    /\ NoContinuationQueued
    /\ selectedImage' = images[i]
    /\ UNCHANGED <<images, isAnalyzing, chatMessages, inputMessage, isChatting,
                   error, analyzeCalls, chatCalls, nextId>>

\* line 182: prev.filter(img => img.id !== id)
RECURSIVE FilterOut(_, _)
FilterOut(prev, id) ==
    IF prev = <<>> THEN <<>>
    ELSE IF Head(prev).id # id THEN <<Head(prev)>> \o FilterOut(Tail(prev), id)
    ELSE FilterOut(Tail(prev), id)

\* a delete that clears the selection whichever record is deleted
DeleteImageAlwaysClears(i) ==
    /\ NoContinuationQueued
    /\ images' = FilterOut(images, images[i].id)
    /\ selectedImage' = null
    /\ chatMessages' = <<>>
    /\ UNCHANGED <<isAnalyzing, inputMessage, isChatting, error, analyzeCalls,
                   chatCalls, nextId>>

\* a delete without stopPropagation: the click goes on to the item's onClick,
\* which selects the record just deleted
DeleteImageBubbles(i) ==
    /\ NoContinuationQueued
    /\ images' = FilterOut(images, images[i].id)
    /\ selectedImage' = images[i]
    /\ IF selectedImage # null /\ selectedImage.id = images[i].id
       THEN chatMessages' = <<>>
       ELSE UNCHANGED chatMessages
    /\ UNCHANGED <<isAnalyzing, inputMessage, isChatting, error, analyzeCalls,
                   chatCalls, nextId>>

\* lines 180-187 and 256: click on the delete button of images[i]; the click
\* does not reach the item's own onClick (stopPropagation)
DeleteImage(i) ==
    LET id == images[i].id
    IN /\ NoContinuationQueued
       /\ images' = FilterOut(images, id)
       /\ IF selectedImage # null /\ selectedImage.id = id
          THEN /\ selectedImage' = null
               /\ chatMessages' = <<>>
          ELSE UNCHANGED <<selectedImage, chatMessages>>
       /\ UNCHANGED <<isAnalyzing, inputMessage, isChatting, error, analyzeCalls,
                      chatCalls, nextId>>

-----------------------------------------------------------------------------

Next ==
    \/ \E file \in Files \cup {NoFile} : HandleFileUpload(file)
    \/ \E i \in DOMAIN analyzeCalls : FileReaderOnLoad(i)
    \/ \E i \in DOMAIN analyzeCalls : FileReaderOnError(i)
    \/ \E i \in DOMAIN analyzeCalls : \E text \in AnalysisTexts : AnalysisResolves(i, text)
    \/ \E i \in DOMAIN analyzeCalls : AnalysisRejects(i)
    \/ \E i \in DOMAIN analyzeCalls : ProcessImageThen(i)
    \/ \E i \in DOMAIN analyzeCalls : ProcessImageCatch(i)
    \/ \E t \in InputTexts : SetInputMessage(t)
    \/ HandleSendMessage
    \/ \E i \in DOMAIN chatCalls : \E text \in ChatTexts : ChatResolves(i, text)
    \/ \E i \in DOMAIN chatCalls : ChatRejects(i)
    \/ \E i \in DOMAIN chatCalls : HandleSendMessageThen(i)
    \/ \E i \in DOMAIN chatCalls : HandleSendMessageCatch(i)
    \/ \E i \in DOMAIN images : SelectImage(i)
    \/ \E i \in DOMAIN images : DeleteImage(i)

Spec == Init /\ [][Next]_vars

TypeOK ==
    /\ isAnalyzing \in BOOLEAN
    /\ isChatting \in BOOLEAN
    /\ error \in {NoError, AnalysisErrorText}
    /\ nextId \in 1..(MaxRecords + 1)
    /\ \A k \in DOMAIN chatMessages : chatMessages[k].role \in {"user", "model"}
    /\ \A k \in DOMAIN analyzeCalls :
            analyzeCalls[k].pc \in {"encoding", "requesting", "resolved", "rejected"}
    /\ \A k \in DOMAIN chatCalls : chatCalls[k].pc \in {"requesting", "resolved", "rejected"}

-----------------------------------------------------------------------------
(* Properties *)

\* sub occurs in text as a run of consecutive tokens
Contains(text, sub) ==
    \E k \in 0..(Len(text) - Len(sub)) : SubSeq(text, k + 1, k + Len(sub)) = sub

\* the step in which the invocation analyzeCalls[i], settled as pc, ends
AnalyzeCallEnds(i, pc) ==
    analyzeCalls[i].pc = pc /\ analyzeCalls' = Remove(analyzeCalls, i)

\* the step in which the invocation chatCalls[i], settled as pc, ends
ChatCallEnds(i, pc) ==
    chatCalls[i].pc = pc /\ chatCalls' = Remove(chatCalls, i)

\* C1: the step that applies a successful analysis puts exactly one new record
\* at the front of the gallery, the earlier records keeping their order behind
\* it, selects that record, and leaves a transcript of exactly one assistant
\* message that contains the record's roomType, whatever the transcript was.
C1_SuccessPrependsSelectsGreets ==
    [][\A i \in DOMAIN analyzeCalls :
            AnalyzeCallEnds(i, "resolved") =>
                /\ Len(images') = Len(images) + 1
                /\ \A k \in DOMAIN images : images'[k + 1] = images[k]
                /\ \A k \in DOMAIN images : images[k].id # images'[1].id
                /\ images'[1].suggestions = ResultText(analyzeCalls[i].text)
                /\ selectedImage' = images'[1]
                /\ Len(chatMessages') = 1
                /\ chatMessages'[1].role = "model"
                /\ Contains(chatMessages'[1].text, images'[1].roomType)
      ]_vars

\* C1 witness: a second analysis has been applied on top of an earlier record
C1_Witness ==
    /\ Len(images) = 2
    /\ analyzeCalls = <<>>
    /\ selectedImage = images[1]
    /\ images[1].id = 2
    /\ images[1].roomType = <<"Kitchen">>
    /\ images[2].roomType = <<"Bedroom">>
    /\ Len(chatMessages) = 1
    /\ Contains(chatMessages[1].text, <<"Kitchen">>)

\* C2: no step of a failing analyze call (its start, the failure of the
\* encoding or of the service call, the handling of the failure) changes
\* gallery, selected or transcript, and handling the failure leaves lastError
\* non-empty.
C2_FailureKeepsGalleryAndSetsError ==
    [][/\ (/\ analyzeCalls' # analyzeCalls
           /\ ~(\E i \in DOMAIN analyzeCalls : AnalyzeCallEnds(i, "resolved")))
          => UNCHANGED <<images, selectedImage, chatMessages>>
       /\ \A i \in DOMAIN analyzeCalls :
            AnalyzeCallEnds(i, "rejected") => error' \notin {NoError, ""}
      ]_vars

\* C2 witness: a failure has been handled while a record with its chat is shown
C2_Witness ==
    /\ error = AnalysisErrorText
    /\ analyzeCalls = <<>>
    /\ ~isAnalyzing
    /\ Len(images) = 1
    /\ selectedImage = images[1]
    /\ Len(chatMessages) = 3

\* C3: busyAnalyzing is false in the state in which an analyze call starts and
\* in the state an analyze call leaves when it ends, and it is false whenever
\* no analyze call is in flight.
C3_BusyFalseBeforeAndAfterEveryCall ==
    /\ [][/\ Len(analyzeCalls') > Len(analyzeCalls) => ~isAnalyzing
          /\ Len(analyzeCalls') < Len(analyzeCalls) => ~isAnalyzing'
         ]_vars
    /\ [](analyzeCalls = <<>> => ~isAnalyzing)

\* C4: when an accepted sendMessage call ends, the transcript is exactly two
\* messages longer than it was when the call started, whatever happened while
\* the request was pending.
C4_TranscriptGrowsByTwo ==
    [][\A i \in DOMAIN chatCalls : \A pc \in {"resolved", "rejected"} :
            ChatCallEnds(i, pc) =>
                Len(chatMessages') = Len(chatCalls[i].chatMessages) + 2
      ]_vars

\* C5: the request of every sendMessage call in flight carries the system
\* framing (with the selected record's roomType and suggestions, or the
\* generic one when nothing is selected) and, as contents, the transcript of
\* before the call in order followed by the new user message.
C5_RequestCarriesFramingAndHistory ==
    \A i \in DOMAIN chatCalls :
        LET c == chatCalls[i]
        IN /\ IF c.selectedImage # null
              THEN /\ Contains(c.request.systemInstruction, c.selectedImage.roomType)
                   /\ Contains(c.request.systemInstruction, c.selectedImage.suggestions)
              ELSE c.request.systemInstruction = GenericInstruction
           /\ Len(c.request.contents) = Len(c.chatMessages) + 1
           /\ \A k \in DOMAIN c.chatMessages :
                /\ c.request.contents[k].role = c.chatMessages[k].role
                /\ c.request.contents[k].parts = c.chatMessages[k].text
           /\ c.request.contents[Len(c.request.contents)] =
                [role |-> "user", parts |-> c.userMsg]

\* C6: a click on a gallery item selects its record and empties the transcript.
C6_SelectClearsTranscript ==
    [][\A i \in DOMAIN images :
            SelectImage(i) => (selectedImage' = images[i] /\ chatMessages' = <<>>)
      ]_vars

\* C7: the step that handles a failed chat request appends exactly the fixed
\* fallback message as an assistant turn, leaves lastError as it was and sets
\* busyChatting to false, so that a send of the non-empty text then in the
\* input is not rejected.
C7_ChatFailureAbsorbed ==
    [][\A i \in DOMAIN chatCalls :
            ChatCallEnds(i, "rejected") =>
                /\ chatMessages' =
                     Append(chatMessages, [role |-> "model", text |-> ChatErrorText])
                /\ error' = error
                /\ ~isChatting'
                /\ (Trim(inputMessage') # <<>> => ~SendRejected')
      ]_vars

\* C7 witness: the fallback message is in the transcript, no error is shown,
\* and a later send has been accepted
C7_Witness ==
    /\ error = NoError
    /\ \E k \in DOMAIN chatMessages :
        /\ k < Len(chatMessages)
        /\ chatMessages[k] = [role |-> "model", text |-> ChatErrorText]
        /\ chatMessages[k + 1].role = "user"
    /\ Len(chatCalls) = 1

\* C8: from a state in which the input is empty or whitespace-only, or
\* busyChatting is true, handleSendMessage changes none of transcript,
\* busyChatting, lastError, gallery and selected; no step from such a state
\* issues a chat request, raises busyChatting or appends a user message; and
\* at most one chat request is in flight.
C8_RejectedSendIsNoOp ==
    /\ [][(Trim(inputMessage) = <<>> \/ isChatting) =>
            /\ HandleSendMessage =>
                 UNCHANGED <<chatMessages, isChatting, error, images, selectedImage,
                             inputMessage, chatCalls>>
            /\ Len(chatCalls') <= Len(chatCalls)
            /\ isChatting' => isChatting
            /\ ~(/\ Len(chatMessages') = Len(chatMessages) + 1
                 /\ chatMessages'[Len(chatMessages')].role = "user")
         ]_vars
    /\ [](Len(chatCalls) <= 1)

\* C8 witness: the chat input holds a non-empty text while a chat request is
\* in flight, so that Enter calls handleSendMessage with busyChatting true
C8_Witness ==
    /\ ChatPanelShown
    /\ isChatting
    /\ Len(chatCalls) = 1
    /\ Trim(inputMessage) # <<>>

\* C9: a delete removes the record of the given id and nothing else from the
\* gallery; when that record is the selected one, selected becomes none and the
\* transcript empty; otherwise selected and transcript are unchanged.
C9_DeleteRemovesAndClearsOnlyIfSelected ==
    [][Len(images') < Len(images) =>
          \E i \in DOMAIN images :
            /\ images' = Remove(images, i)
            /\ \A k \in DOMAIN images' : images'[k].id # images[i].id
            /\ IF selectedImage = images[i]
               THEN selectedImage' = null /\ chatMessages' = <<>>
               ELSE UNCHANGED <<selectedImage, chatMessages>>
      ]_vars

\* C9 witness: of two records the selected one has been deleted
C9_Witness ==
    /\ nextId = 3
    /\ Len(images) = 1
    /\ images[1].id = 1
    /\ selectedImage = null
    /\ chatMessages = <<>>

\* C10: selected is none or a record that is in the gallery.
C10_SelectedIsInGallery ==
    selectedImage = null \/ \E k \in DOMAIN images : images[k] = selectedImage

\* C10 witness: the record that was selected when the pending chat request was
\* issued has been deleted since, and the other record is selected now
C10_Witness ==
    /\ Len(images) = 1
    /\ selectedImage = images[1]
    /\ Len(chatCalls) = 1
    /\ chatCalls[1].selectedImage # null
    /\ \A k \in DOMAIN images : images[k].id # chatCalls[1].selectedImage.id

====
